---- MODULE Spec2Model ----
(***************************************************************************)
(* Model of the graph-partitioning engine of agrupar_circuitos.py: class   *)
(* RedElectrica (graph construction, root selection, the linear DFS        *)
(* grouper and the branch-aware grouper).                                  *)
(*                                                                         *)
(* Lengths are integers; the tolerance is a percentage, so the code's test *)
(* `a <= objetivo * (1 + tol)` is `100 * a <= objetivo * (100 + tol)`.      *)
(***************************************************************************)
EXTENDS Integers, Sequences, FiniteSets, TLC

\* ------------------------------------------------------------------------
\* Bounds of the model
\* ------------------------------------------------------------------------
MaxNodos == 4
MaxSegmentos == 3
\* tables with permuted node ids (root selection)
MaxNodosRaiz == 3
\* rows per table when ids may repeat and endpoints may be unknown
MaxFilas == 2
\* nodes of the networks that are grouped twice
MaxNodosSec == 3
\* segments of the networks that may close cycles
MaxSegmentosCiclos == 4

Longitudes == {4, 9}
Objetivos == {5, 10}
Tolerancias == {10, 20}

\* lengths in metres, the default target and the default tolerance (0.2)
LongitudesMetros == {400, 500, 1500}
ObjetivosMetros == {1000}
ToleranciasMetros == {20}

\* lengths of the chains grouped in both modes
LongitudesCadena == {3, 4, 9}

SinTipo == "SinTipo"

Invertir_Omitido(s) == s

\* ------------------------------------------------------------------------
\* Generic helpers
\* ------------------------------------------------------------------------
RECURSIVE Invertir(_)
Invertir(s) == IF s = <<>> THEN <<>> ELSE Append(Invertir(Tail(s)), Head(s))

Contiene(s, x) == \E i \in 1..Len(s) : s[i] = x

Poner(f, k, v) == (k :> v) @@ f

\* ------------------------------------------------------------------------
\* networkx.Graph: nodes in insertion order, node attribute `tipo`,
\* adjacency in insertion order, one data record per unordered node pair
\* ------------------------------------------------------------------------
GrafoVacio == [nodes |-> <<>>, tipo |-> <<>>, adj |-> <<>>, edge |-> <<>>]

\* G.add_node(n, tipo=...): a known node keeps its position, its attribute
\* is overwritten
add_node(G, n, tipo) ==
    IF Contiene(G.nodes, n)
    THEN [G EXCEPT !.tipo = Poner(G.tipo, n, tipo)]
    ELSE [G EXCEPT !.nodes = Append(G.nodes, n),
                   !.tipo = Poner(G.tipo, n, tipo),
                   !.adj = Poner(G.adj, n, <<>>)]

\* the node an edge creates on the fly when it is unknown: no attributes
NodoImplicito(G, n) ==
    IF Contiene(G.nodes, n) THEN G
    ELSE [G EXCEPT !.nodes = Append(G.nodes, n),
                   !.tipo = Poner(G.tipo, n, SinTipo),
                   !.adj = Poner(G.adj, n, <<>>)]

\* the edge a directed graph would store: v is a neighbour of u only
add_edge_Dirigido(G, u, v, data) ==
    LET G1 == NodoImplicito(NodoImplicito(G, u), v)
        au == IF Contiene(G1.adj[u], v) THEN G1.adj[u] ELSE Append(G1.adj[u], v)
    IN  [G1 EXCEPT !.adj = [G1.adj EXCEPT ![u] = au],
                   !.edge = Poner(G1.edge, {u, v}, data)]

\* G.add_edge(u, v, **data): unknown endpoints are created, an existing
\* edge keeps its place in both adjacencies and its data is overwritten
add_edge(G, u, v, data) ==
    LET G1 == NodoImplicito(NodoImplicito(G, u), v)
        au == IF Contiene(G1.adj[u], v) THEN G1.adj[u] ELSE Append(G1.adj[u], v)
        A1 == [G1.adj EXCEPT ![u] = au]
        av == IF Contiene(A1[v], u) THEN A1[v] ELSE Append(A1[v], u)
    IN  [G1 EXCEPT !.adj = [A1 EXCEPT ![v] = av],
                   !.edge = Poner(G1.edge, {u, v}, data)]

neighbors(G, n) == G.adj[n]

get_edge_data(G, u, v) == G.edge[{u, v}]

\* the degree a directed graph would report: edges leaving n only
out_degree(G, n) ==
    Len(SelectSeq(G.adj[n], LAMBDA v : v > n))

\* G.degree(n): a self-loop counts twice
degree(G, n) ==
    Len(G.adj[n]) + (IF Contiene(G.adj[n], n) THEN 1 ELSE 0)

NodosDe(G) == {G.nodes[i] : i \in 1..Len(G.nodes)}

\* ------------------------------------------------------------------------
\* RedElectrica.cargar_datos
\* ------------------------------------------------------------------------
RECURSIVE AgregarNodos(_, _)
AgregarNodos(G, filas) ==
    IF filas = <<>> THEN G
    ELSE AgregarNodos(add_node(G, Head(filas).id_nodo, Head(filas).tipo),
                      Tail(filas))

RECURSIVE AgregarAristas(_, _)
AgregarAristas(G, filas) ==
    IF filas = <<>> THEN G
    ELSE AgregarAristas(
             add_edge(G, Head(filas).nodo_inicio, Head(filas).nodo_fin,
                      [id_segmento |-> Head(filas).id_segmento,
                       longitud_m |-> Head(filas).longitud_m]),
             Tail(filas))

cargar_datos(G, segmentos, nodos) == AgregarAristas(AgregarNodos(G, nodos), segmentos)

\* ------------------------------------------------------------------------
\* RedElectrica.encontrar_subestacion_principal
\* ------------------------------------------------------------------------
\* the loop over G.nodes(data=True): index of the first node at which the
\* loop stops, either by returning it or by raising KeyError; 0 when the
\* loop runs to its end
RECURSIVE PrimerCorte(_, _)
PrimerCorte(G, i) ==
    IF i > Len(G.nodes) THEN 0
    ELSE IF G.tipo[G.nodes[i]] \in {"Subestacion", SinTipo} THEN i
    ELSE PrimerCorte(G, i + 1)

RECURSIVE MaxGrado_UltimoMaximo(_, _, _)
MaxGrado_UltimoMaximo(G, i, mejor) ==
    IF i > Len(G.nodes) THEN mejor
    ELSE IF degree(G, G.nodes[i]) >= degree(G, mejor)
         THEN MaxGrado_UltimoMaximo(G, i + 1, G.nodes[i])
         ELSE MaxGrado_UltimoMaximo(G, i + 1, mejor)

\* max(grados, key=grados.get): the first key, in iteration order, whose
\* value no other key exceeds
RECURSIVE MaxGrado(_, _, _)
MaxGrado(G, i, mejor) ==
    IF i > Len(G.nodes) THEN mejor
    ELSE IF degree(G, G.nodes[i]) > degree(G, mejor)
         THEN MaxGrado(G, i + 1, G.nodes[i])
         ELSE MaxGrado(G, i + 1, mejor)

encontrar_subestacion_principal_SinGrados(G) ==
    LET c == PrimerCorte(G, 1)
    IN  IF c # 0 /\ G.tipo[G.nodes[c]] = "Subestacion"
        THEN [error |-> "", nodo |-> G.nodes[c]]
        ELSE [error |-> "ValueError", nodo |-> 0]

encontrar_subestacion_principal(G) ==
    LET c == PrimerCorte(G, 1)
    IN  IF c # 0
        THEN IF G.tipo[G.nodes[c]] = "Subestacion"
             THEN [error |-> "", nodo |-> G.nodes[c]]
             ELSE [error |-> "KeyError", nodo |-> 0]
        ELSE IF G.nodes = <<>>
             THEN [error |-> "ValueError", nodo |-> 0]
             ELSE [error |-> "", nodo |-> MaxGrado(G, 2, G.nodes[1])]

\* ------------------------------------------------------------------------
\* The tolerance band
\* ------------------------------------------------------------------------
Cabe_SinSegmento(acum, l, objetivo, tol) == 100 * acum <= objetivo * (100 + tol)

\* the upper limit tested on the segment alone
Cabe_SoloSegmento(acum, l, objetivo, tol) == 100 * l <= objetivo * (100 + tol)

\* acum + l <= longitud_objetivo_m * (1 + tolerancia_km)
Cabe(acum, l, objetivo, tol) == 100 * (acum + l) <= objetivo * (100 + tol)

Alcanza_SinTolerancia(acum, objetivo, tol) == acum >= objetivo

Alcanza_Estricto(acum, objetivo, tol) == 100 * acum > objetivo * (100 - tol)

\* the lower limit with the comparison turned round
Alcanza_Invertido(acum, objetivo, tol) == 100 * acum <= objetivo * (100 - tol)

\* acum >= longitud_objetivo_m * (1 - tolerancia_km)
Alcanza(acum, objetivo, tol) == 100 * acum >= objetivo * (100 - tol)

IndexarSegmentos_SoloPrimero(indice, segmentos, gid) ==
    IF segmentos = <<>> THEN indice
    ELSE Poner(indice, Head(segmentos).segmento_id, gid)

\* ------------------------------------------------------------------------
\* RedElectrica._cerrar_grupo: the registry is the pair of object fields
\* ------------------------------------------------------------------------
RECURSIVE IndexarSegmentos(_, _, _)
IndexarSegmentos(indice, segmentos, gid) ==
    IF segmentos = <<>> THEN indice
    ELSE IndexarSegmentos(Poner(indice, Head(segmentos).segmento_id, gid),
                          Tail(segmentos), gid)

_cerrar_grupo(reg, segmentos, longitud_total, gid) ==
    [grupos |-> Poner(reg.grupos, gid,
                      [segmentos |-> segmentos,
                       longitud_total_m |-> longitud_total,
                       num_segmentos |-> Len(segmentos)]),
     segmentos_por_grupo |-> IndexarSegmentos(reg.segmentos_por_grupo, segmentos, gid),
     cerrados |-> Append(reg.cerrados, gid)]

AgregarAlGrupo_SinIncremento(reg, abierto, acum, gid, seg, objetivo, tol) ==
    LET g == Append(abierto, seg)
        a == acum + seg.longitud_m
    IN  IF Alcanza(a, objetivo, tol)
        THEN [reg |-> _cerrar_grupo(reg, g, a, gid),
              grupo_actual |-> <<>>, longitud_actual |-> 0, grupo_id |-> gid]
        ELSE [reg |-> reg,
              grupo_actual |-> g, longitud_actual |-> a, grupo_id |-> gid]

\* ------------------------------------------------------------------------
\* dfs_agrupar_segmentos: what one popped stack entry with a segment does
\* to the open group and to the registry
\* ------------------------------------------------------------------------
\* the segment fits (lines 194-212): it joins the open group, which is
\* closed once it reaches the lower limit
AgregarAlGrupo(reg, abierto, acum, gid, seg, objetivo, tol) ==
    LET g == Append(abierto, seg)
        a == acum + seg.longitud_m
    IN  IF Alcanza(a, objetivo, tol)
        THEN [reg |-> _cerrar_grupo(reg, g, a, gid),
              grupo_actual |-> <<>>, longitud_actual |-> 0, grupo_id |-> gid + 1]
        ELSE [reg |-> reg,
              grupo_actual |-> g, longitud_actual |-> a, grupo_id |-> gid]

NuevoGrupo_Acumula(reg, abierto, acum, gid, seg) ==
    IF abierto # <<>>
    THEN [reg |-> _cerrar_grupo(reg, abierto, acum, gid),
          grupo_actual |-> <<seg>>, longitud_actual |-> acum + seg.longitud_m,
          grupo_id |-> gid + 1]
    ELSE [reg |-> reg,
          grupo_actual |-> <<seg>>, longitud_actual |-> acum + seg.longitud_m,
          grupo_id |-> gid]

NuevoGrupo_SinCerrar(reg, abierto, acum, gid, seg) ==
    [reg |-> reg,
     grupo_actual |-> <<seg>>, longitud_actual |-> seg.longitud_m,
     grupo_id |-> gid]

NuevoGrupo_SinIncremento(reg, abierto, acum, gid, seg) ==
    IF abierto # <<>>
    THEN [reg |-> _cerrar_grupo(reg, abierto, acum, gid),
          grupo_actual |-> <<seg>>, longitud_actual |-> seg.longitud_m,
          grupo_id |-> gid]
    ELSE [reg |-> reg,
          grupo_actual |-> <<seg>>, longitud_actual |-> seg.longitud_m,
          grupo_id |-> gid]

\* the segment does not fit (lines 215-227): the open group, if any, is
\* closed as it is and the segment opens the next one
NuevoGrupo(reg, abierto, acum, gid, seg) ==
    IF abierto # <<>>
    THEN [reg |-> _cerrar_grupo(reg, abierto, acum, gid),
          grupo_actual |-> <<seg>>, longitud_actual |-> seg.longitud_m,
          grupo_id |-> gid + 1]
    ELSE [reg |-> reg,
          grupo_actual |-> <<seg>>, longitud_actual |-> seg.longitud_m,
          grupo_id |-> gid]

ConsumirSegmento_CierraElNuevo(reg, abierto, acum, gid, seg, objetivo, tol) ==
    IF Cabe(acum, seg.longitud_m, objetivo, tol)
    THEN AgregarAlGrupo(reg, abierto, acum, gid, seg, objetivo, tol)
    ELSE LET n == NuevoGrupo(reg, abierto, acum, gid, seg)
         IN  AgregarAlGrupo(n.reg, <<>>, 0, n.grupo_id, seg, objetivo, tol)

ConsumirSegmento(reg, abierto, acum, gid, seg, objetivo, tol) ==
    IF Cabe(acum, seg.longitud_m, objetivo, tol)
    THEN AgregarAlGrupo(reg, abierto, acum, gid, seg, objetivo, tol)
    ELSE NuevoGrupo(reg, abierto, acum, gid, seg)

RECURSIVE Apilar_UnSoloVecino(_, _, _, _, _)
Apilar_UnSoloVecino(G, p, nodo, vecinos, vis) ==
    IF vecinos = <<>> THEN p
    ELSE LET v == Head(vecinos)
             d == get_edge_data(G, nodo, v)
         IN  IF v \in vis
             THEN Apilar_UnSoloVecino(G, p, nodo, Tail(vecinos), vis)
             ELSE Append(p, [nodo_actual |-> v, nodo_anterior |-> <<nodo>>,
                             segmento |-> <<[id_segmento |-> d.id_segmento,
                                             longitud_m |-> d.longitud_m]>>])

\* the entries pushed for the neighbours of `nodo`, already reversed
RECURSIVE Apilar(_, _, _, _, _)
Apilar(G, p, nodo, vecinos, vis) ==
    IF vecinos = <<>> THEN p
    ELSE LET v == Head(vecinos)
             d == get_edge_data(G, nodo, v)
         IN  IF v \in vis
             THEN Apilar(G, p, nodo, Tail(vecinos), vis)
             ELSE Apilar(G,
                         Append(p, [nodo_actual |-> v, nodo_anterior |-> <<nodo>>,
                                    segmento |-> <<[id_segmento |-> d.id_segmento,
                                                    longitud_m |-> d.longitud_m]>>]),
                         nodo, Tail(vecinos), vis)

\* ------------------------------------------------------------------------
\* _agrupar_segmentos_rama
\* ------------------------------------------------------------------------
UltimoGrupo_Omitido(grupos_rama, abierto, acum) == grupos_rama

\* lines 468-473: the bin still open at the end of the branch
UltimoGrupo(grupos_rama, abierto, acum) ==
    IF abierto # <<>>
    THEN Append(grupos_rama, [segmentos |-> abierto, longitud_total |-> acum])
    ELSE grupos_rama

RECURSIVE AgruparRama(_, _, _, _, _, _)
AgruparRama(segmentos, grupos_rama, abierto, acum, objetivo, tol) ==
    IF segmentos = <<>>
    THEN UltimoGrupo(grupos_rama, abierto, acum)
    ELSE LET s == Head(segmentos)
             desborda == ~Cabe(acum, s.longitud_m, objetivo, tol)
             g1 == IF desborda /\ abierto # <<>>
                   THEN Append(grupos_rama,
                               [segmentos |-> abierto, longitud_total |-> acum])
                   ELSE grupos_rama
             ab1 == IF desborda /\ abierto # <<>> THEN <<>> ELSE abierto
             ac1 == IF desborda /\ abierto # <<>> THEN 0 ELSE acum
             ab2 == Append(ab1, s)
             ac2 == ac1 + s.longitud_m
         IN  IF Alcanza(ac2, objetivo, tol)
             THEN AgruparRama(Tail(segmentos),
                              Append(g1, [segmentos |-> ab2, longitud_total |-> ac2]),
                              <<>>, 0, objetivo, tol)
             ELSE AgruparRama(Tail(segmentos), g1, ab2, ac2, objetivo, tol)

RECURSIVE AgruparRama_SinDesborde(_, _, _, _, _, _)
AgruparRama_SinDesborde(segmentos, grupos_rama, abierto, acum, objetivo, tol) ==
    IF segmentos = <<>>
    THEN UltimoGrupo(grupos_rama, abierto, acum)
    ELSE LET s == Head(segmentos)
             ab2 == Append(abierto, s)
             ac2 == acum + s.longitud_m
         IN  IF Alcanza(ac2, objetivo, tol)
             THEN AgruparRama_SinDesborde(Tail(segmentos),
                      Append(grupos_rama, [segmentos |-> ab2, longitud_total |-> ac2]),
                      <<>>, 0, objetivo, tol)
             ELSE AgruparRama_SinDesborde(Tail(segmentos), grupos_rama, ab2, ac2,
                                          objetivo, tol)

_agrupar_segmentos_rama_SinDesborde(segmentos, objetivo, tol) ==
    AgruparRama_SinDesborde(segmentos, <<>>, <<>>, 0, objetivo, tol)

_agrupar_segmentos_rama(segmentos, objetivo, tol) ==
    AgruparRama(segmentos, <<>>, <<>>, 0, objetivo, tol)

RECURSIVE Encolar_SinCamino(_, _, _, _, _, _)
Encolar_SinCamino(G, st, nodo, previo, camino, vecinos) ==
    IF vecinos = <<>> THEN st
    ELSE LET v == Head(vecinos)
             d == get_edge_data(G, nodo, v)
             arista_id == {nodo, v}
         IN  IF <<v>> = previo \/ arista_id \in st.visitados_global
             THEN Encolar_SinCamino(G, st, nodo, previo, camino, Tail(vecinos))
             ELSE Encolar_SinCamino(G,
                     [visitados_global |-> st.visitados_global \cup {arista_id},
                      cola |-> Append(st.cola,
                                 [nodo_actual |-> v, nodo_previo |-> <<nodo>>,
                                  segmentos_camino |->
                                      <<[segmento_id |-> d.id_segmento,
                                         longitud_m |-> d.longitud_m,
                                         nodo_inicio |-> nodo,
                                         nodo_fin |-> v]>>])],
                     nodo, previo, camino, Tail(vecinos))

RECURSIVE Encolar_SinVisitadosGlobal(_, _, _, _, _, _)
Encolar_SinVisitadosGlobal(G, st, nodo, previo, camino, vecinos) ==
    IF vecinos = <<>> THEN st
    ELSE LET v == Head(vecinos)
             d == get_edge_data(G, nodo, v)
             arista_id == {nodo, v}
         IN  IF <<v>> = previo
             THEN Encolar_SinVisitadosGlobal(G, st, nodo, previo, camino, Tail(vecinos))
             ELSE Encolar_SinVisitadosGlobal(G,
                     [visitados_global |-> st.visitados_global \cup {arista_id},
                      cola |-> Append(st.cola,
                                 [nodo_actual |-> v, nodo_previo |-> <<nodo>>,
                                  segmentos_camino |->
                                      Append(camino,
                                             [segmento_id |-> d.id_segmento,
                                              longitud_m |-> d.longitud_m,
                                              nodo_inicio |-> nodo,
                                              nodo_fin |-> v])])],
                     nodo, previo, camino, Tail(vecinos))

RECURSIVE Encolar_ExtremosInvertidos(_, _, _, _, _, _)
Encolar_ExtremosInvertidos(G, st, nodo, previo, camino, vecinos) ==
    IF vecinos = <<>> THEN st
    ELSE LET v == Head(vecinos)
             d == get_edge_data(G, nodo, v)
             arista_id == {nodo, v}
         IN  IF <<v>> = previo \/ arista_id \in st.visitados_global
             THEN Encolar_ExtremosInvertidos(G, st, nodo, previo, camino, Tail(vecinos))
             ELSE Encolar_ExtremosInvertidos(G,
                     [visitados_global |-> st.visitados_global \cup {arista_id},
                      cola |-> Append(st.cola,
                                 [nodo_actual |-> v, nodo_previo |-> <<nodo>>,
                                  segmentos_camino |->
                                      Append(camino,
                                             [segmento_id |-> d.id_segmento,
                                              longitud_m |-> d.longitud_m,
                                              nodo_inicio |-> v,
                                              nodo_fin |-> nodo])])],
                     nodo, previo, camino, Tail(vecinos))

\* ------------------------------------------------------------------------
\* _identificar_ramas: the loop over the neighbours of the dequeued node
\* ------------------------------------------------------------------------
RECURSIVE Encolar(_, _, _, _, _, _)
Encolar(G, st, nodo, previo, camino, vecinos) ==
    IF vecinos = <<>> THEN st
    ELSE LET v == Head(vecinos)
             d == get_edge_data(G, nodo, v)
             arista_id == {nodo, v}
         IN  IF <<v>> = previo \/ arista_id \in st.visitados_global
             THEN Encolar(G, st, nodo, previo, camino, Tail(vecinos))
             ELSE Encolar(G,
                     [visitados_global |-> st.visitados_global \cup {arista_id},
                      cola |-> Append(st.cola,
                                 [nodo_actual |-> v, nodo_previo |-> <<nodo>>,
                                  segmentos_camino |->
                                      Append(camino,
                                             [segmento_id |-> d.id_segmento,
                                              longitud_m |-> d.longitud_m,
                                              nodo_inicio |-> nodo,
                                              nodo_fin |-> v])])],
                     nodo, previo, camino, Tail(vecinos))

RECURSIVE AlmacenarGrupos_RamaFija(_, _, _, _, _)
AlmacenarGrupos_RamaFija(reg, grupos_rama, gid, rid, rama) ==
    IF grupos_rama = <<>> THEN [reg |-> reg, grupo_id |-> gid]
    ELSE LET g == Head(grupos_rama)
         IN  AlmacenarGrupos_RamaFija(
                 [grupos |-> Poner(reg.grupos, gid,
                                   [segmentos |-> g.segmentos,
                                    longitud_total_m |-> g.longitud_total,
                                    num_segmentos |-> Len(g.segmentos),
                                    rama_id |-> 1,
                                    nodo_inicio_rama |-> rama.nodo_inicio,
                                    nodo_fin_rama |-> rama.nodo_fin]),
                  segmentos_por_grupo |->
                      IndexarSegmentos(reg.segmentos_por_grupo, g.segmentos, gid),
                  cerrados |-> Append(reg.cerrados, gid)],
                 Tail(grupos_rama), gid + 1, rid, rama)

\* ------------------------------------------------------------------------
\* dfs_por_ramas: the groups of one branch go into the registry
\* ------------------------------------------------------------------------
RECURSIVE AlmacenarGrupos(_, _, _, _, _)
AlmacenarGrupos(reg, grupos_rama, gid, rid, rama) ==
    IF grupos_rama = <<>> THEN [reg |-> reg, grupo_id |-> gid]
    ELSE LET g == Head(grupos_rama)
         IN  AlmacenarGrupos(
                 [grupos |-> Poner(reg.grupos, gid,
                                   [segmentos |-> g.segmentos,
                                    longitud_total_m |-> g.longitud_total,
                                    num_segmentos |-> Len(g.segmentos),
                                    rama_id |-> rid,
                                    nodo_inicio_rama |-> rama.nodo_inicio,
                                    nodo_fin_rama |-> rama.nodo_fin]),
                  segmentos_por_grupo |->
                      IndexarSegmentos(reg.segmentos_por_grupo, g.segmentos, gid),
                  cerrados |-> Append(reg.cerrados, gid)],
                 Tail(grupos_rama), gid + 1, rid, rama)

\* ------------------------------------------------------------------------
\* State
\* ------------------------------------------------------------------------
VARIABLES
    df_nodos,            \* node table handed to cargar_datos
    df_segmentos,        \* segment table handed to cargar_datos
    llamadas,            \* grouping calls the caller still makes on the object
    G,                   \* self.G
    grupos,              \* self.grupos
    segmentos_por_grupo, \* self.segmentos_por_grupo
    pc,                  \* position of the caller / of the running method
    error,               \* exception that ended the run, "" when none
    llamada,             \* arguments of the running call
    nodo_inicio,         \* local of both grouping methods
    grupo_id,            \* local of both grouping methods
    visitados,           \* dfs_agrupar_segmentos
    grupo_actual,        \* dfs_agrupar_segmentos
    longitud_actual,     \* dfs_agrupar_segmentos
    pila,                \* dfs_agrupar_segmentos
    puntos_derivacion,   \* dfs_por_ramas
    nodos_terminales,    \* dfs_por_ramas
    ramas,               \* _identificar_ramas, then dfs_por_ramas
    visitados_global,    \* _identificar_ramas
    cola,                \* _identificar_ramas
    rama_id,             \* dfs_por_ramas: branches already grouped
    cerrados             \* group ids the running call has announced, in order

entrada == <<df_nodos, df_segmentos>>
registro == <<grupos, segmentos_por_grupo, cerrados>>
locales_lineal == <<visitados, grupo_actual, longitud_actual, pila>>
locales_ramas == <<puntos_derivacion, nodos_terminales, ramas, visitados_global,
                   cola, rama_id>>
vars == <<df_nodos, df_segmentos, llamadas, G, grupos, segmentos_por_grupo, pc,
          error, llamada, nodo_inicio, grupo_id, visitados, grupo_actual,
          longitud_actual, pila, puntos_derivacion, nodos_terminales, ramas,
          visitados_global, cola, rama_id, cerrados>>

Registro == [grupos |-> grupos, segmentos_por_grupo |-> segmentos_por_grupo,
             cerrados |-> cerrados]

\* ------------------------------------------------------------------------
\* Input tables and call sequences
\* ------------------------------------------------------------------------
Configuraciones ==
    [algoritmo : {"lineal", "por-ramas"},
     longitud_objetivo_m : Objetivos,
     tolerancia : Tolerancias]

\* node table with ids 1..n in row order; row s, if any, is the substation
TablaNodos(n, s) ==
    [i \in 1..n |-> [id_nodo |-> i,
                     tipo |-> IF i = s THEN "Subestacion" ELSE "Apoyo"]]

Pares(n) == {p \in (1..n) \X (1..n) : p[1] < p[2]}

\* segment tables over nodes 1..n: k rows of distinct node pairs, ids 1..k
TablasSegmentosCon(n, k, longitudes) ==
    {[i \in 1..k |-> [id_segmento |-> i,
                      nodo_inicio |-> f[i][1][1],
                      nodo_fin |-> f[i][1][2],
                      longitud_m |-> f[i][2]]] :
        f \in {h \in [1..k -> Pares(n) \X longitudes] :
                  \A i, j \in 1..k : i # j => h[i][1] # h[j][1]}}

\* rows of table t that mention node m
Menciones(t, m) == {i \in 1..Len(t) : m \in {t[i].nodo_inicio, t[i].nodo_fin}}

\* the node ids are numbered in the order in which the segment table first
\* mentions them; the nodes it never mentions come last.  Every network is
\* one of these up to a renaming of its node ids.
Canonica(t, n) ==
    \A m \in 2..n :
        Menciones(t, m) # {} =>
            \E i \in Menciones(t, m - 1) : \A j \in Menciones(t, m) : i <= j

TablasSegmentos(n, k) ==
    {t \in TablasSegmentosCon(n, k, Longitudes) : Canonica(t, n)}

\* node tables with the ids 1..n in any row order and any types
TablasNodosPermutadas(n) ==
    {[i \in 1..n |-> [id_nodo |-> p[i], tipo |-> t[i]]] :
        p \in {q \in [1..n -> 1..n] : \A i, j \in 1..n : i # j => q[i] # q[j]},
        t \in [1..n -> {"Subestacion", "Apoyo"}]}

\* segment tables of one length whose rows come in increasing pair order
TablasSegmentosOrdenadas(n, k) ==
    {t \in TablasSegmentosCon(n, k, {CHOOSE l \in Longitudes : TRUE}) :
        \A i, j \in 1..k : i < j =>
            \/ t[i].nodo_inicio < t[j].nodo_inicio
            \/ (t[i].nodo_inicio = t[j].nodo_inicio /\ t[i].nodo_fin < t[j].nodo_fin)}

\* tables nobody validated: ids may repeat, endpoints may be unknown
FilasNodosLibres == [id_nodo : 1..MaxFilas, tipo : {"Subestacion", "Apoyo"}]

FilasSegmentosLibres ==
    {[id_segmento |-> t[1], nodo_inicio |-> t[2], nodo_fin |-> t[3],
      longitud_m |-> CHOOSE l \in Longitudes : TRUE] :
        t \in {u \in (1..MaxFilas) \X (1..(MaxFilas + 1)) \X (1..(MaxFilas + 1)) :
                  u[2] < u[3]}}

Tablas(filas, k) == UNION {[1..j -> filas] : j \in 0..k}

\* the state right after RedElectrica(): nothing loaded, nothing grouped
Construido ==
    /\ G = GrafoVacio
    /\ grupos = <<>>
    /\ segmentos_por_grupo = <<>>
    /\ pc = "nuevo"
    /\ error = ""
    /\ llamada = [algoritmo |-> "", longitud_objetivo_m |-> 0, tolerancia |-> 0]
    /\ nodo_inicio = 0
    /\ grupo_id = 0
    /\ visitados = {}
    /\ grupo_actual = <<>>
    /\ longitud_actual = 0
    /\ pila = <<>>
    /\ puntos_derivacion = {}
    /\ nodos_terminales = {}
    /\ ramas = <<>>
    /\ visitados_global = {}
    /\ cola = <<>>
    /\ rama_id = 0
    /\ cerrados = <<>>

\* well-formed tables, one grouping call
Init ==
    /\ \E n \in 0..MaxNodos :
          /\ \E s \in 0..n : df_nodos = TablaNodos(n, s)
          /\ \E k \in 0..MaxSegmentos : df_segmentos \in TablasSegmentos(n, k)
    /\ \E c \in Configuraciones : llamadas = <<c>>
    /\ Construido

\* well-formed tables with permuted node ids, one grouping call
InitRaiz ==
    /\ \E n \in 1..MaxNodosRaiz :
          /\ df_nodos \in TablasNodosPermutadas(n)
          /\ \E k \in 0..MaxSegmentos : df_segmentos \in TablasSegmentosOrdenadas(n, k)
    /\ \E c \in Configuraciones : llamadas = <<c>>
    /\ Construido

\* unvalidated tables, one grouping call
InitDatos ==
    /\ df_nodos \in Tablas(FilasNodosLibres, MaxFilas)
    /\ df_segmentos \in Tablas(FilasSegmentosLibres, MaxFilas)
    /\ \E c \in Configuraciones : llamadas = <<c>>
    /\ Construido

\* well-formed tables, two grouping calls on the same object
InitSec ==
    /\ \E n \in 0..MaxNodosSec :
          /\ \E s \in 0..n : df_nodos = TablaNodos(n, s)
          /\ \E k \in 0..(MaxNodosSec - 1) : df_segmentos \in TablasSegmentos(n, k)
    /\ \E c, d \in Configuraciones : llamadas = <<c, d>>
    /\ Construido

\* well-formed tables with lengths in metres, one grouping call with the
\* default target and tolerance
InitMetros ==
    /\ \E n \in 0..MaxNodos :
          /\ \E s \in 0..n : df_nodos = TablaNodos(n, s)
          /\ \E k \in 0..MaxSegmentos :
                /\ df_segmentos \in TablasSegmentosCon(n, k, LongitudesMetros)
                /\ Canonica(df_segmentos, n)
    /\ \E c \in [algoritmo : {"lineal", "por-ramas"},
                 longitud_objetivo_m : ObjetivosMetros,
                 tolerancia : ToleranciasMetros] : llamadas = <<c>>
    /\ Construido

\* networks with enough segments to close cycles, all segments of one
\* length, one grouping call
InitCiclos ==
    /\ \E n \in 0..MaxNodos :
          /\ \E s \in 0..n : df_nodos = TablaNodos(n, s)
          /\ \E k \in 0..MaxSegmentosCiclos :
                /\ df_segmentos \in
                       TablasSegmentosCon(n, k, {CHOOSE l \in Longitudes : TRUE})
                /\ Canonica(df_segmentos, n)
    /\ \E c \in Configuraciones : llamadas = <<c>>
    /\ Construido

\* the chain 1-2-...-n, its rows in order along the chain
TablasCadena(n) ==
    {[i \in 1..(n - 1) |-> [id_segmento |-> i, nodo_inicio |-> i,
                            nodo_fin |-> i + 1, longitud_m |-> f[i]]] :
        f \in [1..(n - 1) -> LongitudesCadena]}

\* chains, the substation (if any) at any node, one grouping call
InitCadenas ==
    /\ \E n \in 1..MaxNodos :
          /\ \E s \in 0..n : df_nodos = TablaNodos(n, s)
          /\ df_segmentos \in TablasCadena(n)
    /\ \E c \in Configuraciones : llamadas = <<c>>
    /\ Construido

\* ------------------------------------------------------------------------
\* Actions
\* ------------------------------------------------------------------------
\* red = RedElectrica(); red.cargar_datos(df_segmentos, df_nodos)
CargarDatos ==
    /\ pc = "nuevo"
    /\ G' = cargar_datos(G, df_segmentos, df_nodos)
    /\ pc' = "cargado"
    /\ UNCHANGED <<entrada, llamadas, registro, error, llamada, nodo_inicio,
                   grupo_id, locales_lineal, locales_ramas>>

PuedeLlamar(alg) ==
    /\ pc \in {"cargado", "retorno"}
    /\ llamadas # <<>>
    /\ Head(llamadas).algoritmo = alg

\* dfs_agrupar_segmentos up to the loop: root selection and the locals
LlamarLineal ==
    /\ PuedeLlamar("lineal")
    /\ LET r == encontrar_subestacion_principal(G)
       IN  /\ llamada' = Head(llamadas)
           /\ llamadas' = Tail(llamadas)
           /\ error' = r.error
           /\ pc' = IF r.error = "" THEN "lineal" ELSE "error"
           /\ nodo_inicio' = r.nodo
           /\ visitados' = {}
           /\ grupo_actual' = <<>>
           /\ longitud_actual' = 0
           /\ grupo_id' = 1
           /\ pila' = IF r.error = ""
                      THEN <<[nodo_actual |-> r.nodo, nodo_anterior |-> <<>>,
                              segmento |-> <<>>]>>
                      ELSE <<>>
           /\ cerrados' = <<>>
           /\ UNCHANGED <<entrada, G, grupos, segmentos_por_grupo, locales_ramas>>

\* one iteration of `while pila`
LinealIter ==
    /\ pc = "lineal"
    /\ pila # <<>>
    /\ LET tope == pila[Len(pila)]
           resto == SubSeq(pila, 1, Len(pila) - 1)
           nodo == tope.nodo_actual
       IN  IF nodo \in visitados
           THEN /\ pila' = resto
                /\ UNCHANGED <<registro, grupo_id, visitados, grupo_actual,
                               longitud_actual>>
           ELSE LET paso ==
                        IF tope.segmento = <<>>
                        THEN [reg |-> Registro, grupo_actual |-> grupo_actual,
                              longitud_actual |-> longitud_actual,
                              grupo_id |-> grupo_id]
                        ELSE ConsumirSegmento(Registro, grupo_actual,
                                 longitud_actual, grupo_id,
                                 [segmento_id |-> tope.segmento[1].id_segmento,
                                  longitud_m |-> tope.segmento[1].longitud_m,
                                  nodo_inicio |-> tope.nodo_anterior[1],
                                  nodo_fin |-> nodo],
                                 llamada.longitud_objetivo_m, llamada.tolerancia)
                    vis == visitados \cup {nodo}
                IN  /\ grupos' = paso.reg.grupos
                    /\ segmentos_por_grupo' = paso.reg.segmentos_por_grupo
                    /\ cerrados' = paso.reg.cerrados
                    /\ grupo_actual' = paso.grupo_actual
                    /\ longitud_actual' = paso.longitud_actual
                    /\ grupo_id' = paso.grupo_id
                    /\ visitados' = vis
                    /\ pila' = Apilar(G, resto, nodo,
                                      Invertir(neighbors(G, nodo)), vis)
    /\ UNCHANGED <<entrada, llamadas, G, pc, error, llamada, nodo_inicio,
                   locales_ramas>>

\* after the loop: the last open group is closed and self.grupos returned
LinealFin ==
    /\ pc = "lineal"
    /\ pila = <<>>
    /\ LET reg == IF grupo_actual # <<>>
                  THEN _cerrar_grupo(Registro, grupo_actual, longitud_actual,
                                     grupo_id)
                  ELSE Registro
       IN  /\ grupos' = reg.grupos
           /\ segmentos_por_grupo' = reg.segmentos_por_grupo
           /\ cerrados' = reg.cerrados
    /\ pc' = "retorno"
    /\ UNCHANGED <<entrada, llamadas, G, error, llamada, nodo_inicio, grupo_id,
                   locales_lineal, locales_ramas>>

\* dfs_por_ramas up to the loop of _identificar_ramas: root selection, the
\* classification of the nodes, the queue seeded with the root
LlamarRamas ==
    /\ PuedeLlamar("por-ramas")
    /\ LET r == encontrar_subestacion_principal(G)
       IN  /\ llamada' = Head(llamadas)
           /\ llamadas' = Tail(llamadas)
           /\ error' = r.error
           /\ pc' = IF r.error = "" THEN "ramas" ELSE "error"
           /\ nodo_inicio' = r.nodo
           /\ puntos_derivacion' =
                  IF r.error = ""
                  THEN {n \in NodosDe(G) : degree(G, n) >= 3} \cup {r.nodo}
                  ELSE {}
           /\ nodos_terminales' =
                  IF r.error = ""
                  THEN {n \in NodosDe(G) : degree(G, n) = 1}
                  ELSE {}
           /\ ramas' = <<>>
           /\ visitados_global' = {}
           /\ cola' = IF r.error = ""
                      THEN <<[nodo_actual |-> r.nodo, nodo_previo |-> <<>>,
                              segmentos_camino |-> <<>>]>>
                      ELSE <<>>
           /\ rama_id' = 0
           /\ cerrados' = <<>>
           /\ UNCHANGED <<entrada, G, grupos, segmentos_por_grupo, grupo_id,
                          locales_lineal>>

\* one iteration of `while cola` in _identificar_ramas
RamasIter ==
    /\ pc = "ramas"
    /\ cola # <<>>
    /\ LET e == Head(cola)
           nodo == e.nodo_actual
           camino == e.segmentos_camino
           es_fin_rama == \/ nodo \in nodos_terminales
                          \/ (nodo \in puntos_derivacion /\ Len(camino) > 0)
           guarda == es_fin_rama /\ camino # <<>>
           ramas1 == IF guarda
                     THEN Append(ramas, [segmentos |-> camino,
                                         nodo_inicio |-> camino[1].nodo_inicio,
                                         nodo_fin |-> nodo])
                     ELSE ramas
           sigue == ~guarda \/ nodo \in puntos_derivacion
           camino1 == IF guarda THEN <<>> ELSE camino
           st == IF sigue
                 THEN Encolar(G, [visitados_global |-> visitados_global,
                                  cola |-> Tail(cola)],
                              nodo, e.nodo_previo, camino1, neighbors(G, nodo))
                 ELSE [visitados_global |-> visitados_global, cola |-> Tail(cola)]
       IN  /\ ramas' = ramas1
           /\ visitados_global' = st.visitados_global
           /\ cola' = st.cola
    /\ UNCHANGED <<entrada, llamadas, G, registro, pc, error, llamada,
                   nodo_inicio, grupo_id, locales_lineal, puntos_derivacion,
                   nodos_terminales, rama_id>>

\* _identificar_ramas returns; dfs_por_ramas empties the registry
RamasPaso3 ==
    /\ pc = "ramas"
    /\ cola = <<>>
    /\ grupo_id' = 1
    /\ grupos' = <<>>
    /\ segmentos_por_grupo' = <<>>
    /\ pc' = "agrupar"
    /\ UNCHANGED <<entrada, llamadas, G, cerrados, error, llamada, nodo_inicio,
                   locales_lineal, locales_ramas>>

\* one iteration of `for rama_id, rama in enumerate(ramas, 1)`
RamasAgrupar ==
    /\ pc = "agrupar"
    /\ rama_id < Len(ramas)
    /\ LET rid == rama_id + 1
           rama == ramas[rid]
           grupos_rama == _agrupar_segmentos_rama(rama.segmentos,
                              llamada.longitud_objetivo_m, llamada.tolerancia)
           r == AlmacenarGrupos(Registro, grupos_rama, grupo_id, rid, rama)
       IN  /\ grupos' = r.reg.grupos
           /\ segmentos_por_grupo' = r.reg.segmentos_por_grupo
           /\ cerrados' = r.reg.cerrados
           /\ grupo_id' = r.grupo_id
           /\ rama_id' = rid
    /\ UNCHANGED <<entrada, llamadas, G, pc, error, llamada, nodo_inicio,
                   locales_lineal, puntos_derivacion, nodos_terminales, ramas,
                   visitados_global, cola>>

\* return self.grupos
RamasFin ==
    /\ pc = "agrupar"
    /\ rama_id = Len(ramas)
    /\ pc' = "retorno"
    /\ UNCHANGED <<entrada, llamadas, G, registro, error, llamada, nodo_inicio,
                   grupo_id, locales_lineal, locales_ramas>>

Next ==
    \/ CargarDatos
    \/ LlamarLineal
    \/ LinealIter
    \/ LinealFin
    \/ LlamarRamas
    \/ RamasIter
    \/ RamasPaso3
    \/ RamasAgrupar
    \/ RamasFin

Spec == Init /\ [][Next]_vars

SpecRaiz == InitRaiz /\ [][Next]_vars

SpecDatos == InitDatos /\ [][Next]_vars

SpecSec == InitSec /\ [][Next]_vars

SpecMetros == InitMetros /\ [][Next]_vars

SpecCiclos == InitCiclos /\ [][Next]_vars

SpecCadenas == InitCadenas /\ [][Next]_vars

\* the caller has no statement left, or an exception ended the run: these
\* are the states in which no action is enabled
Parado == pc = "error" \/ (pc \in {"cargado", "retorno"} /\ llamadas = <<>>)

\* the interpreter runs the caller and the method it is in without pause:
\* whenever a step is possible, a step is taken.  This is weak fairness of
\* Next with its enabling condition written as the state predicate ~Parado.
SpecCiclosJusto ==
    InitCiclos /\ [][Next]_vars /\ ([]<>Parado \/ []<><<Next>>_vars)

\* ------------------------------------------------------------------------
\* Vocabulary of the properties, read off the input tables and the registry
\* ------------------------------------------------------------------------
IdsNodos == {df_nodos[i].id_nodo : i \in 1..Len(df_nodos)}

FilasSegmentos == {df_segmentos[i] : i \in 1..Len(df_segmentos)}

Extremos(fila) == {fila.nodo_inicio, fila.nodo_fin}

RECURSIVE Cierre(_)
Cierre(S) ==
    LET T == S \cup UNION {Extremos(f) : f \in {h \in FilasSegmentos : Extremos(h) \cap S # {}}}
    IN  IF T = S THEN S ELSE Cierre(T)

\* the tables describe a tree: distinct node ids, no unknown endpoint,
\* connected, one segment less than nodes
EsArbol ==
    /\ Len(df_nodos) >= 1
    /\ Cardinality(IdsNodos) = Len(df_nodos)
    /\ \A f \in FilasSegmentos : Extremos(f) \subseteq IdsNodos
    /\ Cierre({df_nodos[1].id_nodo}) = IdsNodos
    /\ Len(df_segmentos) = Len(df_nodos) - 1

\* rows of the segment table in the component of node r
FilasAlcanzables(r) == {f \in FilasSegmentos : Extremos(f) \subseteq Cierre({r})}

RECURSIVE SumaFilas(_)
SumaFilas(F) ==
    IF F = {} THEN 0
    ELSE LET f == CHOOSE x \in F : TRUE
         IN  f.longitud_m + SumaFilas(F \ {f})

RECURSIVE SumaTotales(_)
SumaTotales(D) ==
    IF D = {} THEN 0
    ELSE LET g == CHOOSE x \in D : TRUE
         IN  grupos[g].longitud_total_m + SumaTotales(D \ {g})

\* places (group, position) where segment id sid is registered
Apariciones(sid) ==
    {p \in UNION {{<<g, i>> : i \in 1..Len(grupos[g].segmentos)} : g \in DOMAIN grupos} :
        grupos[p[1]].segmentos[p[2]].segmento_id = sid}

\* places (branch, position) where segment id sid lies in a branch
AparicionesRama(sid) ==
    {p \in UNION {{<<r, i>> : i \in 1..Len(ramas[r].segmentos)} : r \in 1..Len(ramas)} :
        ramas[p[1]].segmentos[p[2]].segmento_id = sid}

Termino(alg) == pc = "retorno" /\ llamada.algoritmo = alg

LimiteInferior(t) == 100 * t >= llamada.longitud_objetivo_m * (100 - llamada.tolerancia)
LimiteSuperior(t) == 100 * t <= llamada.longitud_objetivo_m * (100 + llamada.tolerancia)

\* ------------------------------------------------------------------------
\* C1: linear mode on a connected acyclic graph: after the run every
\* segment reachable from the root is in exactly one registered group, and
\* the groups' total lengths add up to the length of the reachable segments
\* ------------------------------------------------------------------------
C1_ParticionLineal ==
    (Termino("lineal") /\ EsArbol) =>
        /\ \A f \in FilasAlcanzables(nodo_inicio) :
              Cardinality(Apariciones(f.id_segmento)) = 1
        /\ SumaTotales(DOMAIN grupos) = SumaFilas(FilasAlcanzables(nodo_inicio))

C1_Testigo ==
    /\ Termino("lineal")
    /\ EsArbol
    /\ Len(df_segmentos) = 3
    /\ Cardinality(DOMAIN grupos) >= 2
    /\ \E g \in DOMAIN grupos : grupos[g].num_segmentos >= 2

\* ------------------------------------------------------------------------
\* C2: branch mode, every input graph: every segment of the graph is in
\* exactly one branch and in exactly one registered group, and the groups'
\* total lengths add up to the length of all segments
\* ------------------------------------------------------------------------
ParticionRamas ==
    /\ \A f \in FilasSegmentos :
          /\ Cardinality(AparicionesRama(f.id_segmento)) = 1
          /\ Cardinality(Apariciones(f.id_segmento)) = 1
    /\ SumaTotales(DOMAIN grupos) = SumaFilas(FilasSegmentos)

\* C2 as stated: for every input graph
C2_ParticionRamas == Termino("por-ramas") => ParticionRamas

\* C2 amended: for every connected acyclic input graph
C2_ParticionRamasArbol == (Termino("por-ramas") /\ EsArbol) => ParticionRamas

C2_Testigo ==
    /\ Termino("por-ramas")
    /\ EsArbol
    /\ Len(df_segmentos) = 3
    /\ Len(ramas) = 2
    /\ Cardinality(DOMAIN grupos) = 3

\* ------------------------------------------------------------------------
\* C3: both modes, positive lengths: every registered group's total lies in
\* [objetivo*(1-tol), objetivo*(1+tol)], except the last group of the
\* traversal or of its branch, which may be shorter, and a group of one
\* segment that alone exceeds the upper limit
\* ------------------------------------------------------------------------
EnBanda(g) ==
    /\ LimiteInferior(grupos[g].longitud_total_m)
    /\ LimiteSuperior(grupos[g].longitud_total_m)

\* g is followed by another group of the same traversal / of the same branch
TieneSiguiente(g) ==
    /\ g + 1 \in DOMAIN grupos
    /\ llamada.algoritmo = "por-ramas" => grupos[g + 1].rama_id = grupos[g].rama_id

UltimoCorto(g) == ~TieneSiguiente(g) /\ LimiteSuperior(grupos[g].longitud_total_m)

UnicoSobredimensionado(g) ==
    /\ Len(grupos[g].segmentos) = 1
    /\ ~LimiteSuperior(grupos[g].segmentos[1].longitud_m)

\* closed short because the next segment would not fit
CortoPorDesborde(g) ==
    /\ ~LimiteInferior(grupos[g].longitud_total_m)
    /\ TieneSiguiente(g)
    /\ ~LimiteSuperior(grupos[g].longitud_total_m
                       + grupos[g + 1].segmentos[1].longitud_m)

\* C3 as stated
C3_Cotas ==
    pc = "retorno" =>
        \A g \in DOMAIN grupos :
            EnBanda(g) \/ UltimoCorto(g) \/ UnicoSobredimensionado(g)

\* C3 amended: a third exception, the group closed below the lower limit
\* because the next segment would push it over the upper limit
C3_CotasConDesborde ==
    pc = "retorno" =>
        \A g \in DOMAIN grupos :
            \/ EnBanda(g)
            \/ UltimoCorto(g)
            \/ UnicoSobredimensionado(g)
            \/ CortoPorDesborde(g)

C3_Testigo ==
    /\ pc = "retorno"
    /\ \E g \in DOMAIN grupos : CortoPorDesborde(g) /\ ~UnicoSobredimensionado(g)
    /\ \E g \in DOMAIN grupos : EnBanda(g) /\ TieneSiguiente(g)

\* ------------------------------------------------------------------------
\* C7: within one grouping run the ids registered are the consecutive
\* integers 1..n in the order the groups are closed: each new id exceeds
\* all earlier ones and no id is given to a second group
\* ------------------------------------------------------------------------
C7_IdsConsecutivos ==
    /\ \A i \in 1..Len(cerrados) : cerrados[i] = i
    /\ DOMAIN grupos = 1..Len(cerrados)

C7_Testigo ==
    /\ pc = "retorno"
    /\ Len(cerrados) = 3
    /\ \E g \in DOMAIN grupos : grupos[g].num_segmentos = 1 /\ TieneSiguiente(g)

\* ------------------------------------------------------------------------
\* C5: root selection on a non-empty node set: the first node of type
\* Substation in node-table order if there is one; otherwise a node of
\* maximum degree, the earliest in node-table order among those
\* ------------------------------------------------------------------------
GradoTabla(n) == Cardinality({i \in 1..Len(df_segmentos) : n \in Extremos(df_segmentos[i])})

FilasSubestacion == {i \in 1..Len(df_nodos) : df_nodos[i].tipo = "Subestacion"}

FilasGradoMaximo ==
    {i \in 1..Len(df_nodos) :
        \A j \in 1..Len(df_nodos) :
            GradoTabla(df_nodos[j].id_nodo) <= GradoTabla(df_nodos[i].id_nodo)}

Primera(filas) == CHOOSE i \in filas : \A j \in filas : i <= j

RaizEsperada ==
    IF FilasSubestacion # {}
    THEN df_nodos[Primera(FilasSubestacion)].id_nodo
    ELSE df_nodos[Primera(FilasGradoMaximo)].id_nodo

C5_Raiz ==
    (pc \notin {"nuevo", "cargado"} /\ df_nodos # <<>>) =>
        /\ error = ""
        /\ nodo_inicio = RaizEsperada

\* no substation, several nodes of maximum degree, and the one chosen is
\* neither the first row of the table nor the smallest id among them
C5_Testigo ==
    /\ pc = "retorno"
    /\ FilasSubestacion = {}
    /\ Cardinality(FilasGradoMaximo) >= 2
    /\ Primera(FilasGradoMaximo) > 1
    /\ nodo_inicio = df_nodos[Primera(FilasGradoMaximo)].id_nodo
    /\ \E j \in FilasGradoMaximo : df_nodos[j].id_nodo < nodo_inicio

\* ------------------------------------------------------------------------
\* C6: after any sequence of grouping calls on the same object, the
\* registry holds exactly what the latest call wrote: no group and no
\* index entry of an earlier call survives
\* ------------------------------------------------------------------------
IdsCerrados == {cerrados[i] : i \in 1..Len(cerrados)}

C6_RegistroDeUnaSolaLlamada ==
    pc = "retorno" =>
        /\ DOMAIN grupos = IdsCerrados
        /\ \A sid \in DOMAIN segmentos_por_grupo :
              /\ segmentos_por_grupo[sid] \in IdsCerrados
              /\ \E i \in 1..Len(grupos[segmentos_por_grupo[sid]].segmentos) :
                    grupos[segmentos_por_grupo[sid]].segmentos[i].segmento_id = sid

\* ------------------------------------------------------------------------
\* C8: cargar_datos fails with a DataError when a segment row names a node
\* id that is not in the node table; no graph with that segment is built
\* ------------------------------------------------------------------------
FilasHuerfanas == {f \in FilasSegmentos : ~(Extremos(f) \subseteq IdsNodos)}

C8_ReferenciaDesconocida ==
    (pc # "nuevo" /\ FilasHuerfanas # {}) =>
        /\ pc = "error"
        /\ error = "DataError"
        /\ \A f \in FilasHuerfanas : Extremos(f) \notin DOMAIN G.edge

\* ------------------------------------------------------------------------
\* C9: cargar_datos fails with a DataError when a node id or a segment id
\* occurs twice in its table; the later row never replaces the earlier one
\* nor stands beside it
\* ------------------------------------------------------------------------
IdsSegmentos == {df_segmentos[i].id_segmento : i \in 1..Len(df_segmentos)}

HayDuplicados ==
    \/ Cardinality(IdsNodos) < Len(df_nodos)
    \/ Cardinality(IdsSegmentos) < Len(df_segmentos)

C9_IdDuplicado ==
    (pc # "nuevo" /\ HayDuplicados) =>
        /\ pc = "error"
        /\ error = "DataError"
        /\ G = GrafoVacio

\* ------------------------------------------------------------------------
\* C10: with an empty node set root selection fails with an explicit
\* "no root available" error and neither mode registers a group
\* ------------------------------------------------------------------------
C10_SinRaiz ==
    (pc \notin {"nuevo", "cargado"} /\ G.nodes = <<>>) =>
        /\ pc = "error"
        /\ error = "SinRaizDisponible"
        /\ grupos = <<>>
        /\ segmentos_por_grupo = <<>>

\* ------------------------------------------------------------------------
\* C11: with at least one node and no segment, both grouping modes run to
\* their return without an error and the registry they return is empty: no
\* group and no entry in the reverse index
\* ------------------------------------------------------------------------
C11_SinSegmentos ==
    (pc \notin {"nuevo", "cargado"} /\ Len(df_nodos) >= 1 /\ df_segmentos = <<>>) =>
        /\ pc # "error"
        /\ error = ""
        /\ grupos = <<>>
        /\ segmentos_por_grupo = <<>>
        /\ cerrados = <<>>

\* branch mode has returned on three isolated nodes without a substation
C11_Testigo ==
    /\ Termino("por-ramas")
    /\ Len(df_nodos) = 3
    /\ df_segmentos = <<>>
    /\ FilasSubestacion = {}
    /\ grupos = <<>>

\* ------------------------------------------------------------------------
\* C12: linear mode on a graph with several connected components: the run
\* raises no error, every segment of the root's component is grouped, and
\* no segment of another component is in a group or in the reverse index
\* ------------------------------------------------------------------------
VariosComponentes == Len(df_nodos) >= 1 /\ Cierre({nodo_inicio}) # IdsNodos

\* the root's component has no cycle: one segment less than nodes
ComponenteRaizAciclico ==
    Cardinality(FilasAlcanzables(nodo_inicio)) = Cardinality(Cierre({nodo_inicio})) - 1

FilasAjenas == FilasSegmentos \ FilasAlcanzables(nodo_inicio)

\* ids of the segments in registered groups, in the open group, in the index
IdsAgrupados ==
    UNION {{grupos[g].segmentos[i].segmento_id : i \in 1..Len(grupos[g].segmentos)} :
              g \in DOMAIN grupos}

IdsAbiertos == {grupo_actual[i].segmento_id : i \in 1..Len(grupo_actual)}

SoloComponenteRaiz ==
    /\ error = ""
    /\ \A f \in FilasAjenas :
          f.id_segmento \notin IdsAgrupados \cup IdsAbiertos \cup DOMAIN segmentos_por_grupo
    /\ pc = "retorno" =>
          \A f \in FilasAlcanzables(nodo_inicio) :
              /\ Cardinality(Apariciones(f.id_segmento)) = 1
              /\ f.id_segmento \in DOMAIN segmentos_por_grupo

\* C12 as stated: whatever the shape of the root's component
C12_VariosComponentes ==
    (llamada.algoritmo = "lineal" /\ VariosComponentes) => SoloComponenteRaiz

\* C12 amended: the root's component has no cycle
C12_VariosComponentesAciclico ==
    (llamada.algoritmo = "lineal" /\ VariosComponentes /\ ComponenteRaizAciclico) =>
        SoloComponenteRaiz

\* the root's component holds one segment, another component holds one
\* too, and the run has returned with only the former grouped
C12_Testigo ==
    /\ Termino("lineal")
    /\ VariosComponentes
    /\ ComponenteRaizAciclico
    /\ Cardinality(FilasAlcanzables(nodo_inicio)) = 1
    /\ FilasAjenas # {}
    /\ Cardinality(IdsAgrupados) = 1

\* ------------------------------------------------------------------------
\* C13: linear mode: whenever a segment joins the open group without
\* exceeding objetivo*(1+tol) and the new accumulated length is at least
\* objetivo*(1-tol), equality included, the group is closed at that very
\* step with that segment as its last member and the accumulator restarts
\* at 0; the chain 400, 400, 400 with target 1000 and tolerance 0.2 gives
\* group 1 = {1, 2} of length 800 and group 2 = {3} of length 400
\* ------------------------------------------------------------------------
\* the stack entry the next iteration of the loop pops
Tope == pila[Len(pila)]

\* the next iteration consumes a segment: its far node is not visited yet
ConsumeSegmento ==
    /\ pc = "lineal"
    /\ pila # <<>>
    /\ Tope.nodo_actual \notin visitados
    /\ Tope.segmento # <<>>

AcumuladoCon == longitud_actual + Tope.segmento[1].longitud_m

IdsDe(g) == [i \in 1..Len(g.segmentos) |-> g.segmentos[i].segmento_id]

CierreInclusivo ==
    (ConsumeSegmento /\ LimiteSuperior(AcumuladoCon) /\ LimiteInferior(AcumuladoCon)) =>
        /\ cerrados' = Append(cerrados, grupo_id)
        /\ grupo_id \in DOMAIN grupos'
        /\ IdsDe(grupos'[grupo_id]) =
               Append([i \in 1..Len(grupo_actual) |-> grupo_actual[i].segmento_id],
                      Tope.segmento[1].id_segmento)
        /\ grupos'[grupo_id].longitud_total_m = AcumuladoCon
        /\ grupo_actual' = <<>>
        /\ longitud_actual' = 0
        /\ grupo_id' = grupo_id + 1

\* the segment table is the chain 1-2-3-4 of three segments of 400 m
Cadena400 ==
    /\ Len(df_nodos) = 4
    /\ df_nodos[1].tipo = "Subestacion"
    /\ df_segmentos = [i \in 1..3 |-> [id_segmento |-> i, nodo_inicio |-> i,
                                       nodo_fin |-> i + 1, longitud_m |-> 400]]

EscenarioA ==
    (Termino("lineal") /\ Cadena400) =>
        /\ DOMAIN grupos = {1, 2}
        /\ IdsDe(grupos[1]) = <<1, 2>>
        /\ grupos[1].longitud_total_m = 800
        /\ IdsDe(grupos[2]) = <<3>>
        /\ grupos[2].longitud_total_m = 400

C13_CierreInclusivo == [][CierreInclusivo /\ EscenarioA']_vars

\* the chain of scenario A has been grouped: its first group was closed at
\* exactly the lower limit, 800 = 1000 * (1 - 0.2)
C13_Testigo ==
    /\ Termino("lineal")
    /\ Cadena400
    /\ 100 * grupos[1].longitud_total_m =
           llamada.longitud_objetivo_m * (100 - llamada.tolerancia)

\* ------------------------------------------------------------------------
\* C14: _agrupar_segmentos_rama: every segment whose own length exceeds
\* objetivo*(1+tol) is the only member of its bin, whatever precedes or
\* follows it in the branch; a branch of one segment of 1500 m with target
\* 1000 and tolerance 0.2 yields exactly one group, holding that segment,
\* of total length 1500
\* ------------------------------------------------------------------------
BinsDe(r) ==
    _agrupar_segmentos_rama(ramas[r].segmentos, llamada.longitud_objetivo_m,
                            llamada.tolerancia)

\* places (bin, position) of the bins of branch r that hold segment id sid
LugaresEnBins(r, sid) ==
    {p \in UNION {{<<b, i>> : i \in 1..Len(BinsDe(r)[b].segmentos)} :
                     b \in 1..Len(BinsDe(r))} :
        BinsDe(r)[p[1]].segmentos[p[2]].segmento_id = sid}

SobredimensionadosSolos ==
    \A r \in 1..Len(ramas) :
        \A i \in 1..Len(ramas[r].segmentos) :
            LET s == ramas[r].segmentos[i]
            IN  ~LimiteSuperior(s.longitud_m) =>
                    /\ Cardinality(LugaresEnBins(r, s.segmento_id)) = 1
                    /\ \A p \in LugaresEnBins(r, s.segmento_id) :
                          /\ BinsDe(r)[p[1]].segmentos = <<s>>
                          /\ BinsDe(r)[p[1]].longitud_total = s.longitud_m

\* the network is one segment of 1500 m leaving the substation
Segmento1500 ==
    /\ Len(df_nodos) = 2
    /\ df_nodos[1].tipo = "Subestacion"
    /\ df_segmentos = <<[id_segmento |-> 1, nodo_inicio |-> 1, nodo_fin |-> 2,
                         longitud_m |-> 1500]>>

EscenarioSobredimensionado ==
    (Termino("por-ramas") /\ Segmento1500) =>
        /\ Len(ramas) = 1
        /\ Len(BinsDe(1)) = 1
        /\ DOMAIN grupos = {1}
        /\ IdsDe(grupos[1]) = <<1>>
        /\ grupos[1].longitud_total_m = 1500
        /\ ~LimiteSuperior(grupos[1].longitud_total_m)

C14_SobredimensionadoSolo ==
    (llamada.algoritmo = "por-ramas" /\ pc \in {"agrupar", "retorno"}) =>
        /\ SobredimensionadosSolos
        /\ EscenarioSobredimensionado

\* a branch of three segments with the oversized one in the middle, between
\* two segments that would fit together, has been grouped
C14_Testigo ==
    /\ Termino("por-ramas")
    /\ \E r \in 1..Len(ramas) :
          /\ Len(ramas[r].segmentos) = 3
          /\ LimiteSuperior(ramas[r].segmentos[1].longitud_m
                            + ramas[r].segmentos[3].longitud_m)
          /\ ~LimiteSuperior(ramas[r].segmentos[2].longitud_m)
          /\ Len(BinsDe(r)) = 3

\* ------------------------------------------------------------------------
\* C15: within one grouping run, a group registered under an id keeps its
\* segments and its total length for the rest of the run: no later step
\* removes it, rewrites it or moves the index entries of its segments, and
\* a segment consumed later goes to the open group or to a larger id
\* ------------------------------------------------------------------------
RegistradosEnLaLlamada == DOMAIN grupos \cap IdsCerrados

GruposInmutables ==
    \A g \in RegistradosEnLaLlamada :
        /\ g \in DOMAIN grupos'
        /\ grupos'[g] = grupos[g]
        /\ \A i \in 1..Len(grupos[g].segmentos) :
              LET sid == grupos[g].segmentos[i].segmento_id
              IN  sid \in DOMAIN segmentos_por_grupo' /\ segmentos_por_grupo'[sid] = g

NuevosConIdMayor ==
    \A h \in DOMAIN grupos' :
        (h \notin DOMAIN grupos \/ grupos'[h] # grupos[h]) =>
            \A g \in RegistradosEnLaLlamada : h > g

C15_GrupoCerradoInmutable == [][GruposInmutables /\ NuevosConIdMayor]_vars

\* a run has registered three groups, so the first one has lived through
\* the closing of two others
C15_Testigo ==
    /\ Termino("lineal")
    /\ Len(cerrados) = 3
    /\ DOMAIN grupos = 1..3
    /\ grupos[1].num_segmentos = 1

\* ------------------------------------------------------------------------
\* C16: linear mode on a connected acyclic graph: every registered group is
\* contiguous: its segments form a connected subgraph, each one linked to
\* every other through shared endpoints using segments of the group only
\* ------------------------------------------------------------------------
SegmentosDe(g) == {grupos[g].segmentos[i] : i \in 1..Len(grupos[g].segmentos)}

\* the segments of S linked to those of T through shared endpoints
RECURSIVE Enlazados(_, _)
Enlazados(S, T) ==
    LET U == T \cup {s \in S : \E t \in T : Extremos(s) \cap Extremos(t) # {}}
    IN  IF U = T THEN T ELSE Enlazados(S, U)

Contiguo(g) ==
    \A s \in SegmentosDe(g) : Enlazados(SegmentosDe(g), {s}) = SegmentosDe(g)

C16_GruposContiguos ==
    (Termino("lineal") /\ EsArbol) => \A g \in DOMAIN grupos : Contiguo(g)

\* ------------------------------------------------------------------------
\* C17: branch mode: every registered group holds segments of one branch
\* only, the branch its rama_id records, and group ids follow the order in
\* which the branches were found: g < h implies rama_id(g) <= rama_id(h)
\* ------------------------------------------------------------------------
IdsDeRama(r) == {ramas[r].segmentos[i].segmento_id : i \in 1..Len(ramas[r].segmentos)}

GrupoDeUnaRama(g) ==
    /\ grupos[g].rama_id \in 1..Len(ramas)
    /\ grupos[g].segmentos # <<>>
    /\ \A i \in 1..Len(grupos[g].segmentos) :
          LET sid == grupos[g].segmentos[i].segmento_id
          IN  \A r \in 1..Len(ramas) : sid \in IdsDeRama(r) <=> r = grupos[g].rama_id
    /\ grupos[g].nodo_inicio_rama = ramas[grupos[g].rama_id].nodo_inicio
    /\ grupos[g].nodo_fin_rama = ramas[grupos[g].rama_id].nodo_fin

C17_GruposPorRama ==
    (llamada.algoritmo = "por-ramas" /\ pc \in {"agrupar", "retorno"}) =>
        /\ \A g \in DOMAIN grupos : GrupoDeUnaRama(g)
        /\ \A g, h \in DOMAIN grupos : g < h => grupos[g].rama_id <= grupos[h].rama_id

\* two branches, the first in one group, the second split into two
C17_Testigo ==
    /\ Termino("por-ramas")
    /\ Len(ramas) = 2
    /\ DOMAIN grupos = 1..3
    /\ grupos[1].rama_id = 1
    /\ grupos[2].rama_id = 2
    /\ grupos[3].rama_id = 2

\* ------------------------------------------------------------------------
\* C18: linear mode on a tree: the neighbours of a node are processed in
\* the order in which the segment table inserted them, so the groups'
\* segment lists, concatenated by increasing group id, are the depth-first
\* pre-order of the tree's edges from the root with the children of every
\* node taken in adjacency insertion order
\* ------------------------------------------------------------------------
\* the neighbours of node u in the order of the rows that mention it
RECURSIVE VecinosTabla(_, _)
VecinosTabla(u, i) ==
    IF i > Len(df_segmentos) THEN <<>>
    ELSE IF df_segmentos[i].nodo_inicio = u
         THEN <<df_segmentos[i].nodo_fin>> \o VecinosTabla(u, i + 1)
    ELSE IF df_segmentos[i].nodo_fin = u
         THEN <<df_segmentos[i].nodo_inicio>> \o VecinosTabla(u, i + 1)
    ELSE VecinosTabla(u, i + 1)

IdFila(u, v) == (CHOOSE f \in FilasSegmentos : Extremos(f) = {u, v}).id_segmento

\* pre-order of the edges below u, whose parent is `padre` (0 for the root)
RECURSIVE Preorden(_, _, _)
Preorden(u, padre, vecinos) ==
    IF vecinos = <<>> THEN <<>>
    ELSE LET v == Head(vecinos)
         IN  IF v = padre THEN Preorden(u, padre, Tail(vecinos))
             ELSE <<IdFila(u, v)>> \o Preorden(v, u, VecinosTabla(v, 1))
                                   \o Preorden(u, padre, Tail(vecinos))

PreordenDesdeRaiz == Preorden(nodo_inicio, 0, VecinosTabla(nodo_inicio, 1))

\* segment ids of groups 1..n, one group after the other
RECURSIVE Concatenados(_)
Concatenados(n) ==
    IF n = 0 THEN <<>> ELSE Concatenados(n - 1) \o IdsDe(grupos[n])

Consumidos ==
    Concatenados(Cardinality(DOMAIN grupos))
        \o [i \in 1..Len(grupo_actual) |-> grupo_actual[i].segmento_id]

C18_OrdenDeRecorrido ==
    (llamada.algoritmo = "lineal" /\ EsArbol) =>
        /\ pc = "lineal" =>
              /\ Len(Consumidos) <= Len(PreordenDesdeRaiz)
              /\ Consumidos = SubSeq(PreordenDesdeRaiz, 1, Len(Consumidos))
        /\ pc = "retorno" =>
              Concatenados(Cardinality(DOMAIN grupos)) = PreordenDesdeRaiz

\* the run has returned on a tree of three segments whose root has two
\* children, the one inserted first having the larger node id
C18_Testigo ==
    /\ Termino("lineal")
    /\ EsArbol
    /\ Len(df_segmentos) = 3
    /\ Len(VecinosTabla(nodo_inicio, 1)) = 2
    /\ VecinosTabla(nodo_inicio, 1)[1] > VecinosTabla(nodo_inicio, 1)[2]
    /\ Cardinality(DOMAIN grupos) >= 2

\* ------------------------------------------------------------------------
\* C19: linear mode, overflow: when accumulated + incoming length exceeds
\* objetivo*(1+tol), the open group, if not empty, is registered as it is
\* and the incoming segment becomes the only member of a new open group
\* whose accumulator is its length; the new group is not closed at that
\* step, even if the segment alone reaches objetivo*(1-tol), and stays open
\* until the next segment is consumed or the traversal ends
\* ------------------------------------------------------------------------
Desborde == ConsumeSegmento /\ ~LimiteSuperior(AcumuladoCon)

ReglaDeDesborde ==
    Desborde =>
        /\ IF grupo_actual # <<>>
           THEN /\ cerrados' = Append(cerrados, grupo_id)
                /\ DOMAIN grupos' = DOMAIN grupos \cup {grupo_id}
                /\ grupos'[grupo_id].segmentos = grupo_actual
                /\ grupos'[grupo_id].longitud_total_m = longitud_actual
                /\ grupo_id' = grupo_id + 1
           ELSE /\ UNCHANGED registro
                /\ grupo_id' = grupo_id
        /\ Len(grupo_actual') = 1
        /\ grupo_actual'[1].segmento_id = Tope.segmento[1].id_segmento
        /\ grupo_actual'[1].longitud_m = Tope.segmento[1].longitud_m
        /\ longitud_actual' = Tope.segmento[1].longitud_m
        /\ Tope.segmento[1].id_segmento \notin
               UNION {{grupos'[g].segmentos[i].segmento_id :
                          i \in 1..Len(grupos'[g].segmentos)} : g \in DOMAIN grupos'}

\* an iteration that consumes no segment leaves the open group alone
AbiertoHastaElSiguiente ==
    (pc = "lineal" /\ pila # <<>> /\ ~ConsumeSegmento) =>
        UNCHANGED <<registro, grupo_actual, longitud_actual, grupo_id>>

C19_ReglaDeDesborde == [][ReglaDeDesborde /\ AbiertoHastaElSiguiente]_vars

\* after an overflow that closed a short group: the open group is the lone
\* incoming segment, already at or above the lower limit, and still open
C19_Testigo ==
    /\ pc = "lineal"
    /\ Len(grupo_actual) = 1
    /\ LimiteInferior(longitud_actual)
    /\ LimiteSuperior(longitud_actual)
    /\ cerrados # <<>>
    /\ ~LimiteInferior(grupos[cerrados[Len(cerrados)]].longitud_total_m)
    /\ pila # <<>>

\* ------------------------------------------------------------------------
\* C20: branch mode: the derivation set is exactly the nodes of degree >= 3
\* plus the root, and the terminal set is exactly the nodes of degree 1; a
\* root of degree 1 is in both, a node of degree 0 or 2 other than the root
\* is in neither
\* ------------------------------------------------------------------------
Clasificado == llamada.algoritmo = "por-ramas" /\ pc \in {"ramas", "agrupar", "retorno"}

C20_ClasificacionDeNodos ==
    Clasificado =>
        /\ puntos_derivacion = {n \in IdsNodos : GradoTabla(n) >= 3} \cup {nodo_inicio}
        /\ nodos_terminales = {n \in IdsNodos : GradoTabla(n) = 1}
        /\ GradoTabla(nodo_inicio) = 1 =>
              nodo_inicio \in puntos_derivacion \cap nodos_terminales
        /\ \A n \in IdsNodos \ {nodo_inicio} :
              GradoTabla(n) \in {0, 2} =>
                  n \notin puntos_derivacion \cup nodos_terminales

\* a root of degree 1 hanging from a node of degree 3
C20_Testigo ==
    /\ Termino("por-ramas")
    /\ GradoTabla(nodo_inicio) = 1
    /\ nodo_inicio \in puntos_derivacion \cap nodos_terminales
    /\ \E n \in puntos_derivacion : n # nodo_inicio /\ GradoTabla(n) = 3

\* ------------------------------------------------------------------------
\* C21: every branch _identificar_ramas returns on a connected acyclic
\* graph is non-empty; its segments form a simple path in order, the end
\* node of each being the start node of the next; its recorded start node
\* is a derivation point (the root included), its recorded end node is a
\* terminal or a derivation point, and no interior node of the path is a
\* terminal or a derivation point
\* ------------------------------------------------------------------------
\* the nodes of the path of branch r, in order
NodosDeRama(r) ==
    [i \in 1..(Len(ramas[r].segmentos) + 1) |->
        IF i = 1 THEN ramas[r].segmentos[1].nodo_inicio
        ELSE ramas[r].segmentos[i - 1].nodo_fin]

Fronteras == puntos_derivacion \cup nodos_terminales

FormaDeRama(r) ==
    LET segs == ramas[r].segmentos
        nodos == NodosDeRama(r)
    IN  /\ segs # <<>>
        /\ \A i \in 1..(Len(segs) - 1) : segs[i].nodo_fin = segs[i + 1].nodo_inicio
        /\ \A i, j \in 1..Len(nodos) : i # j => nodos[i] # nodos[j]
        /\ \A i \in 1..Len(segs) :
              \E f \in FilasSegmentos :
                  /\ f.id_segmento = segs[i].segmento_id
                  /\ Extremos(f) = {segs[i].nodo_inicio, segs[i].nodo_fin}
                  /\ f.longitud_m = segs[i].longitud_m
        /\ ramas[r].nodo_inicio = nodos[1]
        /\ ramas[r].nodo_inicio \in puntos_derivacion
        /\ ramas[r].nodo_fin = nodos[Len(nodos)]
        /\ ramas[r].nodo_fin \in Fronteras
        /\ \A i \in 2..(Len(nodos) - 1) : nodos[i] \notin Fronteras

C21_FormaDeLasRamas ==
    (Clasificado /\ EsArbol) => \A r \in 1..Len(ramas) : FormaDeRama(r)

\* a root of degree 1 hanging from a node of degree 3: the first branch
\* ends at that derivation point and the other two start there
C21_Testigo ==
    /\ Termino("por-ramas")
    /\ EsArbol
    /\ Len(ramas) = 3
    /\ ramas[1].nodo_inicio = nodo_inicio
    /\ ramas[1].nodo_fin \in puntos_derivacion \ {nodo_inicio}
    /\ ramas[2].nodo_inicio = ramas[1].nodo_fin
    /\ ramas[3].nodo_inicio = ramas[1].nodo_fin
    /\ ramas[3].nodo_fin \in nodos_terminales

\* ------------------------------------------------------------------------
\* C22: for every finite input graph, graphs with cycles included, no
\* segment is in more than one branch returned by _identificar_ramas and
\* no segment is twice in one branch
\* ------------------------------------------------------------------------
\* the segment table closes a cycle in the component of the root
CicloEnLaRaiz ==
    Cardinality(FilasAlcanzables(nodo_inicio)) >= Cardinality(Cierre({nodo_inicio}))

C22_RamasDisjuntas ==
    Clasificado =>
        \A f \in FilasSegmentos : Cardinality(AparicionesRama(f.id_segmento)) <= 1

\* a cycle through the root with a pendant segment: branch discovery has
\* ended with some but not all segments of the component in branches
C22_Testigo ==
    /\ Termino("por-ramas")
    /\ CicloEnLaRaiz
    /\ Len(ramas) >= 2
    /\ \E f \in FilasAlcanzables(nodo_inicio) : AparicionesRama(f.id_segmento) = {}

\* ------------------------------------------------------------------------
\* C23: branch mode on a connected acyclic graph: the branches returned by
\* _identificar_ramas cover every segment of the graph, each in exactly one
\* branch, so every segment ends up in exactly one registered group
\* ------------------------------------------------------------------------
\* the branch that holds segment id sid
RamaDe(sid) == CHOOSE r \in 1..Len(ramas) : sid \in IdsDeRama(r)

CoberturaDeRamas ==
    /\ UNION {IdsDeRama(r) : r \in 1..Len(ramas)} = IdsSegmentos
    /\ \A sid \in IdsSegmentos : Cardinality(AparicionesRama(sid)) = 1

UnGrupoPorSegmento ==
    \A sid \in IdsSegmentos :
        /\ Cardinality(Apariciones(sid)) = 1
        /\ sid \in DOMAIN segmentos_por_grupo
        /\ \A p \in Apariciones(sid) :
              /\ segmentos_por_grupo[sid] = p[1]
              /\ grupos[p[1]].rama_id = RamaDe(sid)

C23_RamasCubrenElArbol ==
    (llamada.algoritmo = "por-ramas" /\ EsArbol) =>
        /\ pc \in {"agrupar", "retorno"} => CoberturaDeRamas
        /\ pc = "retorno" => UnGrupoPorSegmento

\* a root of degree 1 hanging from a node of degree 3: the traversal went
\* on past the derivation point and the three branches cover the tree
C23_Testigo ==
    /\ Termino("por-ramas")
    /\ EsArbol
    /\ Len(ramas) = 3
    /\ GradoTabla(nodo_inicio) = 1
    /\ Cardinality(IdsSegmentos) = 3
    /\ Cardinality(IdsAgrupados) = 3

\* ------------------------------------------------------------------------
\* C24: _agrupar_segmentos_rama splits its input in order: the bins are
\* non-empty runs of consecutive input segments whose concatenation is the
\* input list; a bin is closed before a segment that would push it over
\* objetivo*(1+tol) and right after a segment that brings it to at least
\* objetivo*(1-tol)
\* ------------------------------------------------------------------------
RECURSIVE SumaSeq(_)
SumaSeq(s) == IF s = <<>> THEN 0 ELSE Head(s).longitud_m + SumaSeq(Tail(s))

RECURSIVE ConcatenarBins(_)
ConcatenarBins(bins) ==
    IF bins = <<>> THEN <<>> ELSE Head(bins).segmentos \o ConcatenarBins(Tail(bins))

DivisionEnOrden(entrada_rama, bins) ==
    /\ \A b \in 1..Len(bins) :
          /\ bins[b].segmentos # <<>>
          /\ bins[b].longitud_total = SumaSeq(bins[b].segmentos)
    /\ ConcatenarBins(bins) = entrada_rama

CierresDeBin(bins) ==
    \A b \in 1..Len(bins) :
        LET segs == bins[b].segmentos
        IN  \* no segment but the last brought the bin to the lower limit
            /\ \A i \in 1..(Len(segs) - 1) :
                  ~LimiteInferior(SumaSeq(SubSeq(segs, 1, i)))
            \* no segment after the first pushed the bin over the upper limit
            /\ \A i \in 2..Len(segs) : LimiteSuperior(SumaSeq(SubSeq(segs, 1, i)))
            \* a bin followed by another was closed for one of the two reasons
            /\ b < Len(bins) =>
                  \/ LimiteInferior(bins[b].longitud_total)
                  \/ ~LimiteSuperior(bins[b].longitud_total
                                     + bins[b + 1].segmentos[1].longitud_m)

C24_DivisionEnOrden ==
    (llamada.algoritmo = "por-ramas" /\ pc \in {"agrupar", "retorno"}) =>
        \A r \in 1..Len(ramas) :
            /\ DivisionEnOrden(ramas[r].segmentos, BinsDe(r))
            /\ CierresDeBin(BinsDe(r))

\* a branch of three segments split in two bins, the first closed on
\* reaching the lower limit with its second segment
C24_Testigo ==
    /\ Termino("por-ramas")
    /\ Len(ramas) = 1
    /\ Len(ramas[1].segmentos) = 3
    /\ Len(BinsDe(1)) = 2
    /\ Len(BinsDe(1)[1].segmentos) = 2
    /\ LimiteInferior(BinsDe(1)[1].longitud_total)

\* ------------------------------------------------------------------------
\* C25: on a single chain rooted at one of its end nodes, with positive
\* lengths and no oversized segment, linear mode and branch mode produce
\* the same sequence of groups: the same number of groups and, under each
\* group id, the same segments in the same order and the same total length
\* ------------------------------------------------------------------------
CadenaDesdeExtremo ==
    /\ EsArbol
    /\ df_segmentos # <<>>
    /\ \A n \in IdsNodos : GradoTabla(n) <= 2
    /\ GradoTabla(nodo_inicio) = 1

SinSobredimensionados == \A f \in FilasSegmentos : LimiteSuperior(f.longitud_m)

\* no segment reaches the lower limit by itself
SegmentosCortos == \A f \in FilasSegmentos : ~LimiteInferior(f.longitud_m)

FilaConId(sid) == CHOOSE f \in FilasSegmentos : f.id_segmento = sid

\* the segments of the chain in the order in which they leave the root
SecuenciaCadena ==
    [i \in 1..Len(PreordenDesdeRaiz) |->
        [segmento_id |-> PreordenDesdeRaiz[i],
         longitud_m |-> FilaConId(PreordenDesdeRaiz[i]).longitud_m]]

\* what the branch grouper makes of the chain
BinsDeLaCadena ==
    _agrupar_segmentos_rama(SecuenciaCadena, llamada.longitud_objetivo_m,
                            llamada.tolerancia)

RegistroIgualABins ==
    /\ DOMAIN grupos = 1..Len(BinsDeLaCadena)
    /\ \A g \in DOMAIN grupos :
          /\ IdsDe(grupos[g]) = IdsDe(BinsDeLaCadena[g])
          /\ grupos[g].longitud_total_m = BinsDeLaCadena[g].longitud_total

\* branch mode registers the bins of the chain, its only branch
RamasRegistraLosBins ==
    Termino("por-ramas") =>
        /\ Len(ramas) = 1
        /\ IdsDe(ramas[1]) = PreordenDesdeRaiz
        /\ RegistroIgualABins

\* C25 as stated: no oversized segment
C25_MismosGrupos ==
    (pc = "retorno" /\ CadenaDesdeExtremo /\ SinSobredimensionados) =>
        /\ RamasRegistraLosBins
        /\ Termino("lineal") => RegistroIgualABins

\* C25 amended: no segment reaches the lower limit by itself
C25_MismosGruposSegmentosCortos ==
    (pc = "retorno" /\ CadenaDesdeExtremo /\ SegmentosCortos) =>
        /\ RamasRegistraLosBins
        /\ Termino("lineal") => RegistroIgualABins

\* linear mode has grouped a chain of three short segments in which an
\* overflow closed a group below the lower limit
C25_Testigo ==
    /\ Termino("lineal")
    /\ CadenaDesdeExtremo
    /\ SegmentosCortos
    /\ Len(df_segmentos) = 3
    /\ \E g \in DOMAIN grupos : CortoPorDesborde(g)
    /\ RegistroIgualABins

\* ------------------------------------------------------------------------
\* C26: registry after a grouping run, either mode, unique segment ids:
\* every registered group has at least one segment, its recorded count is
\* the number of its segments, its recorded total is the sum of their
\* lengths, and the reverse index maps a segment id to group g exactly when
\* the segment is a member of group g
\* ------------------------------------------------------------------------
IdsDelGrupo(g) == {grupos[g].segmentos[i].segmento_id : i \in 1..Len(grupos[g].segmentos)}

GrupoConsistente(g) ==
    /\ grupos[g].segmentos # <<>>
    /\ grupos[g].num_segmentos = Len(grupos[g].segmentos)
    /\ grupos[g].longitud_total_m = SumaSeq(grupos[g].segmentos)

IndiceExacto ==
    /\ \A sid \in DOMAIN segmentos_por_grupo :
          /\ segmentos_por_grupo[sid] \in DOMAIN grupos
          /\ sid \in IdsDelGrupo(segmentos_por_grupo[sid])
    /\ \A g \in DOMAIN grupos :
          \A sid \in IdsDelGrupo(g) :
              sid \in DOMAIN segmentos_por_grupo /\ segmentos_por_grupo[sid] = g

C26_RegistroConsistente ==
    pc = "retorno" =>
        /\ \A g \in DOMAIN grupos : GrupoConsistente(g)
        /\ IndiceExacto

\* branch mode has returned two groups, one of them of two segments
C26_Testigo ==
    /\ Termino("por-ramas")
    /\ DOMAIN grupos = 1..2
    /\ \E g \in DOMAIN grupos : grupos[g].num_segmentos = 2
    /\ Cardinality(DOMAIN segmentos_por_grupo) = 3

\* ------------------------------------------------------------------------
\* C27: for every finite input graph with a non-empty node set, graphs
\* with cycles and disconnected graphs included, the stack loop of linear
\* mode and the queue loop of branch mode eventually empty and the run
\* returns; linear mode marks and expands no node more than once
\* ------------------------------------------------------------------------
\* the run returns
Retorna == (df_nodos # <<>>) ~> (pc = "retorno")

\* an iteration of the stack loop that does more than discard its entry
Expande ==
    /\ pc = "lineal"
    /\ pila # <<>>
    /\ \/ visitados' # visitados
       \/ pila' # SubSeq(pila, 1, Len(pila) - 1)
       \/ <<registro, grupo_actual, longitud_actual, grupo_id>>' #
              <<registro, grupo_actual, longitud_actual, grupo_id>>

UnaVezPorNodo ==
    /\ (pc = "lineal" /\ pc' = "lineal") => visitados \subseteq visitados'
    /\ Expande =>
          /\ Tope.nodo_actual \notin visitados
          /\ visitados' = visitados \cup {Tope.nodo_actual}

\* the work still to do is bounded by the size of the graph: an edge is
\* stacked at most once from each end, queued at most once, and closes at
\* most one branch
TrabajoAcotado ==
    /\ Len(pila) <= 2 * Len(df_segmentos) + 1
    /\ Cardinality(visitados) <= Len(df_nodos)
    /\ Len(cola) <= Len(df_segmentos) + 1
    /\ Len(ramas) <= Len(df_segmentos)
    /\ Cardinality(visitados_global) <= Len(df_segmentos)

\* nothing runs once the caller has stopped
DetenidoAlRetornar == Parado => UNCHANGED vars

C27_Terminacion ==
    /\ Retorna
    /\ [][UnaVezPorNodo /\ DetenidoAlRetornar]_vars
    /\ []TrabajoAcotado

\* both loops have run dry on a graph with a cycle
C27_Testigo ==
    /\ pc = "retorno"
    /\ CicloEnLaRaiz
    /\ Len(df_segmentos) = 4
    /\ pila = <<>>
    /\ cola = <<>>
    /\ llamadas = <<>>

\* ------------------------------------------------------------------------
\* C28: linear mode on a connected graph that may contain cycles: each
\* segment is consumed at most once, at the step where its far endpoint is
\* visited for the first time, so the grouped segments are a spanning tree
\* of the root's component: one less than the reachable nodes, every
\* reachable node an endpoint of a grouped segment; every other segment is
\* absent from the registry
\* ------------------------------------------------------------------------
Conexo == Len(df_nodos) >= 1 /\ Cierre({df_nodos[1].id_nodo}) = IdsNodos

\* a segment is consumed only on the first visit of its far endpoint, and
\* it was not consumed before
ConsumoEnPrimeraVisita ==
    ConsumeSegmento =>
        /\ Tope.nodo_actual \notin visitados
        /\ Tope.nodo_actual \in visitados'
        /\ Tope.segmento[1].id_segmento \notin IdsAgrupados \cup IdsAbiertos
        /\ Tope.segmento[1].id_segmento \in IdsAgrupados' \cup IdsAbiertos'

\* outside those steps the set of consumed segments does not change
ConsumoSoloAlVisitar ==
    (pc = "lineal" /\ ~ConsumeSegmento) =>
        IdsAgrupados' \cup IdsAbiertos' = IdsAgrupados \cup IdsAbiertos

SegmentosAgrupados == UNION {SegmentosDe(g) : g \in DOMAIN grupos}

ArbolGenerador ==
    /\ \A s \in IdsAgrupados : Cardinality(Apariciones(s)) = 1
    /\ Cardinality(IdsAgrupados) = Cardinality(Cierre({nodo_inicio})) - 1
    /\ \A s, t \in SegmentosAgrupados : s # t => s.nodo_fin # t.nodo_fin
    /\ \A s \in SegmentosAgrupados : s.nodo_fin # nodo_inicio
    /\ DOMAIN segmentos_por_grupo = IdsAgrupados

NodosCubiertos ==
    \A n \in Cierre({nodo_inicio}) : \E s \in SegmentosAgrupados : n \in Extremos(s)

\* C28 as stated: every connected graph
C28_ArbolGenerador ==
    [][(llamada.algoritmo = "lineal" /\ Conexo) =>
           /\ ConsumoEnPrimeraVisita
           /\ ConsumoSoloAlVisitar
           /\ pc' = "retorno" => (ArbolGenerador /\ NodosCubiertos)']_vars

\* C28 amended: every connected graph with at least one segment
C28_ArbolGeneradorConSegmentos ==
    [][(llamada.algoritmo = "lineal" /\ Conexo /\ df_segmentos # <<>>) =>
           /\ ConsumoEnPrimeraVisita
           /\ ConsumoSoloAlVisitar
           /\ pc' = "retorno" => (ArbolGenerador /\ NodosCubiertos)']_vars

\* linear mode has returned on a connected graph of four nodes and four
\* segments: three are grouped, the one closing the cycle is not
C28_Testigo ==
    /\ Termino("lineal")
    /\ Conexo
    /\ Len(df_nodos) = 4
    /\ Len(df_segmentos) = 4
    /\ Cardinality(IdsAgrupados) = 3
    /\ Cardinality(IdsSegmentos \ DOMAIN segmentos_por_grupo) = 1

\* ------------------------------------------------------------------------
\* C29: both modes, positive lengths: a registered group that is not the
\* last of its traversal (linear) or of its branch (por-ramas) either
\* reaches objetivo*(1-tol) or, with the first segment of the next group,
\* exceeds objetivo*(1+tol)
\* ------------------------------------------------------------------------
LongitudesPositivas == \A f \in FilasSegmentos : f.longitud_m > 0

SiguienteNoCabe(g) ==
    ~LimiteSuperior(grupos[g].longitud_total_m + grupos[g + 1].segmentos[1].longitud_m)

C29_CortosSoloPorDesborde ==
    (pc = "retorno" /\ LongitudesPositivas) =>
        \A g \in DOMAIN grupos :
            TieneSiguiente(g) =>
                LimiteInferior(grupos[g].longitud_total_m) \/ SiguienteNoCabe(g)

\* branch mode has returned with a short group followed in its branch by a
\* group whose first segment did not fit, and with a short group that is
\* the last of its branch
C29_Testigo ==
    /\ Termino("por-ramas")
    /\ \E g \in DOMAIN grupos :
          /\ TieneSiguiente(g)
          /\ ~LimiteInferior(grupos[g].longitud_total_m)
          /\ SiguienteNoCabe(g)
    /\ \E g \in DOMAIN grupos :
          /\ ~TieneSiguiente(g)
          /\ ~LimiteInferior(grupos[g].longitud_total_m)

\* ------------------------------------------------------------------------
\* C30: both modes, positive lengths: a registered group of two or more
\* segments has a total of at most objetivo*(1+tol); a group whose total
\* exceeds that limit has exactly one segment
\* ------------------------------------------------------------------------
C30_CotaSuperiorDeVarios ==
    (pc = "retorno" /\ LongitudesPositivas) =>
        \A g \in DOMAIN grupos :
            /\ Len(grupos[g].segmentos) >= 2 => LimiteSuperior(grupos[g].longitud_total_m)
            /\ ~LimiteSuperior(grupos[g].longitud_total_m) => Len(grupos[g].segmentos) = 1

\* linear mode has returned with a group of two segments that was closed
\* because the next segment would have taken it over the upper limit
C30_Testigo ==
    /\ Termino("lineal")
    /\ \E g \in DOMAIN grupos :
          /\ Len(grupos[g].segmentos) = 2
          /\ g + 1 \in DOMAIN grupos
          /\ ~LimiteSuperior(grupos[g].longitud_total_m
                             + grupos[g + 1].segmentos[1].longitud_m)

====
